---------------------------- MODULE Spec2Model ----------------------------
(***************************************************************************)
(* Model of the voice assistant's platform action dispatcher:              *)
(*   VoiceAssistant.run            (voice_assis.py)                        *)
(*   CommandProcessor.handle_command (command_processing.py)               *)
(*   SystemController.open_application, _try_launch, set_volume,           *)
(*   _get_volume_control_cmd       (system_controller.py)                  *)
(*                                                                         *)
(* Python strings are sequences of one-character strings, so that `in`,    *)
(* lower(), strip(), replace() and capitalize() are computed character by  *)
(* character as the interpreter computes them.                             *)
(***************************************************************************)
EXTENDS Integers, Sequences, FiniteSets, TLC

VARIABLES
    os_name,    \* SystemController.os_name = platform.system()
    volume_ok,  \* Windows only: self.volume is an endpoint (TRUE) or None (FALSE)
    level,      \* the host's master output volume, in percent
    prevLevel,  \* the host's volume when the last set_volume call began
    running,    \* VoiceAssistant.run is still inside its while loop
    caught,     \* some handler has caught an exception since startup
    op,         \* the operation that ran last
    query,      \* what speech.listen() returned to the last loop iteration
    name,       \* the argument of the last open_application call
    volArg,     \* the argument of the last control-surface call
    outcomes,   \* how the host answers the i-th request of the last call
    popen,      \* the subprocess.Popen calls of the last operation, in order
    urls,       \* the webbrowser.open calls of the last operation, in order
    calls,      \* the collaborator calls handle_command made for the last query
    mech,       \* the platform mechanism invocations of the last control-surface call
    result,     \* the string the last operation returned (or spoke)
    raised      \* the last operation ended with an exception leaving it

vars == <<os_name, volume_ok, level, prevLevel, running, caught, op, query,
          name, volArg, outcomes, popen, urls, calls, mech, result, raised>>

-----------------------------------------------------------------------------
(* Bounds of the explored inputs. *)

\* a name given to open_application is made of at most this many fragments
MaxNameFrags == 2
\* a query heard by the loop is made of at most this many fragments
MaxQueryFrags == 2
\* integer volume levels are drawn from within VolumeSlack of either end of the
\* valid range
VolumeSlack == 2

-----------------------------------------------------------------------------
(* Python str operations. *)

UpperLetters == <<"A","B","C","D","E","F","G","H","I","J","K","L","M","N","O","P","Q","R","S","T","U","V","W","X","Y","Z">>
LowerLetters == <<"a","b","c","d","e","f","g","h","i","j","k","l","m","n","o","p","q","r","s","t","u","v","w","x","y","z">>
Whitespace == {" ", "\t"}

\* str.lower() on one character
LowerChar(c) ==
    IF \E i \in 1..Len(UpperLetters) : UpperLetters[i] = c
    THEN LowerLetters[CHOOSE i \in 1..Len(UpperLetters) : UpperLetters[i] = c]
    ELSE c

\* str.upper() on one character
UpperChar(c) ==
    IF \E i \in 1..Len(LowerLetters) : LowerLetters[i] = c
    THEN UpperLetters[CHOOSE i \in 1..Len(LowerLetters) : LowerLetters[i] = c]
    ELSE c

\* s.lower()
Lower(s) == [i \in 1..Len(s) |-> LowerChar(s[i])]

\* s.capitalize(): first character upper-cased, the rest lower-cased
Capitalize(s) == [i \in 1..Len(s) |-> IF i = 1 THEN UpperChar(s[i]) ELSE LowerChar(s[i])]

\* s occurs in t at offset i (0-based): t[i:i+len(s)] == s
OccursAt(s, t, i) ==
    /\ i >= 0
    /\ i + Len(s) <= Len(t)
    /\ \A j \in 1..Len(s) : t[i + j] = s[j]

\* Python's `s in t`
Contains(s, t) == \E i \in 0..(Len(t) - Len(s)) : OccursAt(s, t, i)

\* t.startswith(s)
StartsWith(t, s) == OccursAt(s, t, 0)

\* t.replace(old, new) for a non-empty old: leftmost occurrences, left to right,
\* scanning resumes after each replaced occurrence
RECURSIVE Replace(_, _, _)
Replace(t, old, new) ==
    IF Len(t) < Len(old) THEN t
    ELSE IF OccursAt(old, t, 0)
         THEN new \o Replace(SubSeq(t, Len(old) + 1, Len(t)), old, new)
         ELSE <<t[1]>> \o Replace(Tail(t), old, new)

\* s.strip(): leading and trailing whitespace removed
Strip(s) ==
    LET ink == {i \in 1..Len(s) : s[i] \notin Whitespace}
    IN  IF ink = {} THEN << >>
        ELSE SubSeq(s, CHOOSE i \in ink : \A j \in ink : i <= j,
                       CHOOSE i \in ink : \A j \in ink : j <= i)

\* the concatenation of a sequence of strings
RECURSIVE Concat(_)
Concat(parts) == IF parts = << >> THEN << >> ELSE Head(parts) \o Concat(Tail(parts))

\* every string made of at most n fragments of the set frags
Texts(frags, n) == UNION {{Concat(f) : f \in [1..k -> frags]} : k \in 0..n}

-----------------------------------------------------------------------------
(* Capability registry: SystemController.APPS, in declaration order. *)

Platforms == {"Windows", "Darwin", "Linux"}
\* platform.system() also answers with other names ("FreeBSD", "Java", "")
HostPlatforms == Platforms \cup {"Other"}

LaunchTarget(k, win, mac, linux) ==
    [key |-> k, web |-> FALSE, uri |-> << >>,
     cmds |-> [p \in Platforms |->
                 CASE p = "Windows" -> win [] p = "Darwin" -> mac [] p = "Linux" -> linux]]

WebTarget(k, u) ==
    [key |-> k, web |-> TRUE, uri |-> u, cmds |-> [p \in {} |-> << >>]]

APPS == <<
    LaunchTarget(<<"n","o","t","e","p","a","d">>, <<<<"n","o","t","e","p","a","d",".","e","x","e">>>>, <<<<"o","p","e","n">>, <<"-","a">>, <<"T","e","x","t","E","d","i","t">>>>,
                 <<<<"g","e","d","i","t">>, <<"x","e","d">>, <<"n","a","n","o">>>>),
    LaunchTarget(<<"c","a","l","c","u","l","a","t","o","r">>, <<<<"c","a","l","c",".","e","x","e">>>>, <<<<"o","p","e","n">>, <<"-","a">>, <<"C","a","l","c","u","l","a","t","o","r">>>>,
                 <<<<"g","n","o","m","e","-","c","a","l","c","u","l","a","t","o","r">>, <<"k","c","a","l","c">>, <<"x","c","a","l","c">>>>),
    LaunchTarget(<<"t","a","s","k"," ","m","a","n","a","g","e","r">>, <<<<"t","a","s","k","m","g","r",".","e","x","e">>>>, <<<<"o","p","e","n">>, <<"-","a">>, <<"A","c","t","i","v","i","t","y"," ","M","o","n","i","t","o","r">>>>,
                 <<<<"g","n","o","m","e","-","s","y","s","t","e","m","-","m","o","n","i","t","o","r">>, <<"h","t","o","p">>>>),
    LaunchTarget(<<"t","e","r","m","i","n","a","l">>, <<<<"c","m","d",".","e","x","e">>>>, <<<<"o","p","e","n">>, <<"-","a">>, <<"T","e","r","m","i","n","a","l">>>>,
                 <<<<"g","n","o","m","e","-","t","e","r","m","i","n","a","l">>, <<"k","o","n","s","o","l","e">>>>),
    WebTarget(<<"y","o","u","t","u","b","e">>, <<"h","t","t","p","s",":","/","/","y","o","u","t","u","b","e",".","c","o","m">>),
    WebTarget(<<"g","o","o","g","l","e">>, <<"h","t","t","p","s",":","/","/","g","o","o","g","l","e",".","c","o","m">>),
    LaunchTarget(<<"e","m","a","i","l"," ","c","l","i","e","n","t">>, <<<<"o","u","t","l","o","o","k",".","e","x","e">>>>, <<<<"o","p","e","n">>, <<"-","a">>, <<"M","a","i","l">>>>,
                 <<<<"t","h","u","n","d","e","r","b","i","r","d">>>>) >>

\* v.get(self.os_name, [])
Candidates(v, os) == IF os \in DOMAIN v.cmds THEN v.cmds[os] ELSE << >>

\* the longest candidate list of the registry
MaxCandidates ==
    LET lens == {Len(APPS[i].cmds[p]) : i \in {j \in 1..Len(APPS) : ~APPS[j].web},
                                        p \in Platforms}
    IN  CHOOSE n \in lens : \A m \in lens : m <= n

-----------------------------------------------------------------------------
(* Command prober: SystemController._try_launch. *)

\* what subprocess.Popen does with a command: the process starts, the
\* executable is missing (FileNotFoundError), or the start fails otherwise
Outcomes == {"Launched", "NotFound", "LaunchError"}

\* _try_launch(cmd_list): Popen is called with the command whatever its executable;
\* FileNotFoundError and every other Exception are caught and give False
TryLaunch(argv, outcome) ==
    [call |-> [argv |-> argv, outcome |-> outcome], ok |-> (outcome = "Launched")]

-----------------------------------------------------------------------------
(* Action resolver: SystemController.open_application. *)

OpeningMsg(k) == <<"O","p","e","n","i","n","g"," ">> \o k
NotFoundMsg(k) == Capitalize(k) \o <<" ","n","o","t"," ","f","o","u","n","d"," ","o","n"," ","t","h","i","s"," ","s","y","s","t","e","m",".">>
SearchUrl(key) == <<"h","t","t","p","s",":","/","/","w","w","w",".","g","o","o","g","l","e",".","c","o","m","/","s","e","a","r","c","h","?","q","=","o","p","e","n","+">> \o key
FallbackMsg(key) ==
    <<"C","o","u","l","d"," ","n","o","t"," ","f","i","n","d"," ">> \o key \o <<" ","a","s"," ","a","n"," ","a","p","p","l","i","c","a","t","i","o","n","."," ","O","p","e","n","i","n","g"," ","w","e","b"," ","s","e","a","r","c","h"," ","f","o","r"," ","i","t",".">>

\* the test of line 121: the registry key occurs in the lowercased name
KeyMatchesExact(k, key) == k = key
KeyMatches(k, key) == Contains(k, key)

\* `for k, v in self.APPS.items(): if k in key:` -- the index of the first
\* entry, from entry i on, whose key matches; 0 when the loop falls through
RECURSIVE FirstMatchFrom(_, _)
FirstMatchFrom(key, i) ==
    IF i > Len(APPS) THEN 0
    ELSE IF KeyMatches(APPS[i].key, key) THEN i
         ELSE FirstMatchFrom(key, i + 1)

FirstMatch(key) == FirstMatchFrom(key, 1)

\* `for cmd in candidates: if self._try_launch(cmd): return` -- the Popen calls
\* made from candidate i on; oc[i] is the host's answer to the i-th one
RECURSIVE WalkNoStop(_, _, _)
WalkNoStop(cands, oc, i) ==
    IF i > Len(cands) THEN << >>
    ELSE <<TryLaunch(<<cands[i]>>, oc[i]).call>> \o WalkNoStop(cands, oc, i + 1)

RECURSIVE Walk(_, _, _)
Walk(cands, oc, i) ==
    IF i > Len(cands) THEN << >>
    ELSE LET a == TryLaunch(<<cands[i]>>, oc[i])
         IN  IF a.ok THEN <<a.call>>
             ELSE <<a.call>> \o Walk(cands, oc, i + 1)

Launched(log) == log # << >> /\ log[Len(log)].outcome = "Launched"

\* lines 132-137 with the return of line 130 lost: the raw name is tried too
ExhaustedFallsThrough(k, key, log, oc) ==
    LET a == TryLaunch(<<key>>, "NotFound")
    IN  [result |-> FallbackMsg(key), popen |-> log \o <<a.call>>,
         urls |-> <<SearchUrl(key)>>]

\* line 130: the walk is exhausted
Exhausted(k, key, log, oc) == [result |-> NotFoundMsg(k), popen |-> log, urls |-> << >>]

\* lines 132-137 with the key passed as typed
UnmatchedNoSearch(key, oc) ==
    LET a == TryLaunch(<<key>>, oc[1])
    IN  [result |-> OpeningMsg(key), popen |-> <<a.call>>, urls |-> << >>]

\* lines 132-137: no registry entry matched
Unmatched(key, oc) ==
    LET a == TryLaunch(<<key>>, oc[1])
    IN  IF a.ok
        THEN [result |-> OpeningMsg(key), popen |-> <<a.call>>, urls |-> << >>]
        ELSE [result |-> FallbackMsg(key), popen |-> <<a.call>>,
              urls |-> <<SearchUrl(key)>>]

\* open_application(nm) on platform os
OpenApplication(nm, os, oc) ==
    LET key == Lower(nm)
        m   == FirstMatch(key)
    IN  IF m = 0 THEN Unmatched(key, oc)
        ELSE LET k == APPS[m].key
                 v == APPS[m]
             IN  IF v.web
                 THEN [result |-> OpeningMsg(k), popen |-> << >>, urls |-> <<v.uri>>]
                 ELSE LET log == Walk(Candidates(v, os), oc, 1)
                      IN  IF Launched(log)
                          THEN [result |-> OpeningMsg(k), popen |-> log, urls |-> << >>]
                          ELSE Exhausted(k, key, log, oc)

\* the host's answers to the process starts a call may make: one per candidate
\* of the entry the name resolves to, one for the raw name when none matches
StartsOf(nm, os) ==
    LET m == FirstMatch(Lower(nm))
    IN  IF m = 0 THEN 1
        ELSE IF APPS[m].web THEN 0 ELSE Len(Candidates(APPS[m], os))

OutcomeVectors(n) == [1..n -> Outcomes]

\* the names given to open_application
NameFrags == {<<"n","o","t","e","p","a","d">>, <<"t","a","s","k"," ","m","a","n","a","g","e","r">>, <<"t","e","r","m","i","n","a","l">>, <<"y","o","u","t","u","b","e">>, <<"g","o","o","g","l","e">>,
              <<"e","m","a","i","l"," ","c","l","i","e","n","t">>, <<"c","a","l","c">>, <<"Y","o","u","T","u","b","e">>, <<" ">>, <<"X","y">>}
Names == Texts(NameFrags, MaxNameFrags)

-----------------------------------------------------------------------------
(* The host's volume range and the step of increase/decrease. *)

MinVolume == 0
MaxVolume == 100
VolumeStep == 5

NoArg == [type |-> "none"]

\* nothing is in progress: the observations of the last operation are blank
Blank ==
    /\ op = "idle"
    /\ query = << >>
    /\ name = << >>
    /\ volArg = NoArg
    /\ outcomes = << >>
    /\ popen = << >>
    /\ urls = << >>
    /\ calls = << >>
    /\ mech = << >>
    /\ result = << >>
    /\ raised = FALSE

\* the state after SystemController.__init__ on a host whose volume is one of levels
InitSystem(levels) ==
    /\ os_name \in HostPlatforms
    /\ volume_ok \in (IF os_name = "Windows" THEN BOOLEAN ELSE {FALSE})
    /\ level \in levels
    /\ prevLevel = level
    /\ running = TRUE
    /\ caught = FALSE
    /\ Blank

Init == InitSystem({MaxVolume})

\* the caller takes the returned string; the next operation starts from blank
\* observations
Return ==
    /\ op \in {"open_application", "set_volume", "change_brightness", "power_control",
              "media_control", "get_system_status", "manage_window", "take_screenshot"}
    /\ op' = "idle"
    /\ query' = << >>
    /\ name' = << >>
    /\ volArg' = NoArg
    /\ outcomes' = << >>
    /\ popen' = << >>
    /\ urls' = << >>
    /\ calls' = << >>
    /\ mech' = << >>
    /\ result' = << >>
    /\ raised' = FALSE
    /\ prevLevel' = level
    /\ UNCHANGED <<os_name, volume_ok, level, running, caught>>

\* a caller invokes open_application(nm)
CallOpenApplication ==
    /\ op = "idle"
    /\ \E nm \in Names :
       \E oc \in OutcomeVectors(StartsOf(nm, os_name)) :
        \E r \in {OpenApplication(nm, os_name, oc)} :
            /\ op' = "open_application"
            /\ name' = nm
            /\ outcomes' = oc
            /\ popen' = r.popen
            /\ urls' = r.urls
            /\ result' = r.result
            /\ raised' = FALSE
            /\ UNCHANGED <<os_name, volume_ok, level, prevLevel, running, caught,
                           query, volArg, calls, mech>>

NextResolver == CallOpenApplication \/ Return

SpecResolver == Init /\ [][NextResolver]_vars

-----------------------------------------------------------------------------
(* Intent router: CommandProcessor.handle_command. *)

DigitChars == <<"0","1","2","3","4","5","6","7","8","9">>

\* str(n) for a natural number
RECURSIVE Digits(_)
Digits(n) ==
    IF n < 10 THEN <<DigitChars[n + 1]>>
    ELSE Digits(n \div 10) \o <<DigitChars[(n % 10) + 1]>>

\* a strftime field zero-padded to two digits (%H, %M, %d)
Pad2(n) == IF n < 10 THEN <<"0">> \o Digits(n) ELSE Digits(n)

MonthNames == <<<<"J","a","n","u","a","r","y">>, <<"F","e","b","r","u","a","r","y">>, <<"M","a","r","c","h">>, <<"A","p","r","i","l">>, <<"M","a","y">>, <<"J","u","n","e">>, <<"J","u","l","y">>,
                <<"A","u","g","u","s","t">>, <<"S","e","p","t","e","m","b","e","r">>, <<"O","c","t","o","b","e","r">>, <<"N","o","v","e","m","b","e","r">>, <<"D","e","c","e","m","b","e","r">>>>

\* strftime('%H:%M')
FormatTime(now) == Pad2(now.hour) \o <<":">> \o Pad2(now.minute)

\* strftime('%d %B %Y')
FormatDate(now) ==
    Pad2(now.day) \o <<" ">> \o MonthNames[now.month] \o <<" ">> \o Digits(now.year)

\* what datetime.datetime.now() may answer
Instants == {[hour |-> 9, minute |-> 5, day |-> 1, month |-> 11, year |-> 2026],
             [hour |-> 23, minute |-> 59, day |-> 31, month |-> 12, year |-> 2025]}
NoInstant == [hour |-> 0, minute |-> 0, day |-> 1, month |-> 1, year |-> 1970]

\* what wikipedia.summary(topic, sentences=2) may do: return a text, or raise
WikiAnswers == {[ok |-> TRUE, text |-> <<"A"," ","s","u","m","m","a","r","y",".">>],
                [ok |-> FALSE, text |-> <<"P","a","g","e"," ","i","d"," ","d","o","e","s"," ","n","o","t"," ","m","a","t","c","h"," ","a","n","y"," ","p","a","g","e","s",".">>]}
NoAnswer == [ok |-> TRUE, text |-> << >>]

TimeTrigger == <<"t","i","m","e">>
DateTrigger == <<"d","a","t","e">>
WikiTrigger == <<"w","i","k","i","p","e","d","i","a">>
OpenTrigger == <<"o","p","e","n">>

\* the if/elif chain with the open test moved to the front
ClassifyOpenFirst(q) ==
    IF Contains(OpenTrigger, q) THEN "open"
    ELSE IF Contains(TimeTrigger, q) THEN "time"
    ELSE IF Contains(DateTrigger, q) THEN "date"
    ELSE IF Contains(WikiTrigger, q) THEN "wikipedia"
    ELSE "unknown"

\* the if/elif chain of lines 16-35: the branch taken for the normalised query
Classify(q) ==
    IF Contains(TimeTrigger, q) THEN "time"
    ELSE IF Contains(DateTrigger, q) THEN "date"
    ELSE IF Contains(WikiTrigger, q) THEN "wikipedia"
    ELSE IF Contains(OpenTrigger, q) THEN "open"
    ELSE "unknown"

\* line 24: topic = query.replace("wikipedia", "").strip()
Topic(q) == Strip(Replace(q, WikiTrigger, << >>))

\* line 31 without the strip()
AppNameUnstripped(q) == Replace(q, OpenTrigger, << >>)

\* line 31: app_name = query.replace("open", "").strip()
AppName(q) == Strip(Replace(q, OpenTrigger, << >>))

Call(fn, arg) == [fn |-> fn, arg |-> arg]

\* what a handle_command branch leaves behind
Handled(res, cs, nm, oc, starts, opened, caughtNow, raisedNow) ==
    [result |-> res, calls |-> cs, name |-> nm, outcomes |-> oc, popen |-> starts,
     urls |-> opened, caught |-> caughtNow, raised |-> raisedNow]

\* lines 23-28 without the try/except: a lookup failure leaves handle_command
WikipediaRuleUncaught(q, ans) ==
    IF ans.ok
    THEN Handled(<<"A","c","c","o","r","d","i","n","g"," ","t","o"," ","W","i","k","i","p","e","d","i","a",":"," ">> \o ans.text,
                 <<Call("wikipedia.summary", Topic(q))>>, << >>, << >>, << >>, << >>,
                 FALSE, FALSE)
    ELSE Handled(<< >>, <<Call("wikipedia.summary", Topic(q))>>, << >>, << >>, << >>,
                 << >>, FALSE, TRUE)

\* lines 22-28: the knowledge lookup; every Exception is caught and reported
WikipediaRule(q, ans) ==
    IF ans.ok
    THEN Handled(<<"A","c","c","o","r","d","i","n","g"," ","t","o"," ","W","i","k","i","p","e","d","i","a",":"," ">> \o ans.text,
                 <<Call("wikipedia.summary", Topic(q))>>, << >>, << >>, << >>, << >>,
                 FALSE, FALSE)
    ELSE Handled(<<"S","o","r","r","y",","," ","I"," ","c","o","u","l","d","n","'","t"," ","f","e","t","c","h"," ","t","h","a","t"," ","i","n","f","o","r","m","a","t","i","o","n","."," ","(">> \o ans.text \o <<")">>,
                 <<Call("wikipedia.summary", Topic(q))>>, << >>, << >>, << >>, << >>,
                 TRUE, FALSE)

\* lines 30-32: the open rule delegates to the resolver; _try_launch catches
\* whatever a failed start raises
OpenRule(q, os, oc) ==
    LET app == AppName(q)
        r   == OpenApplication(app, os, oc)
    IN  Handled(r.result, <<Call("open_application", app)>>, app, oc, r.popen,
                r.urls, \E j \in 1..Len(r.popen) : r.popen[j].outcome # "Launched",
                FALSE)

\* handle_command(query) on platform os, the host answering as e says
HandleCommand(qry, os, e) ==
    LET q    == Strip(Lower(qry))
        rule == Classify(q)
    IN  CASE rule = "time" ->
               Handled(<<"T","h","e"," ","c","u","r","r","e","n","t"," ","t","i","m","e"," ","i","s"," ">> \o FormatTime(e.now),
                       <<Call("datetime.now", << >>)>>, << >>, << >>, << >>, << >>,
                       FALSE, FALSE)
          [] rule = "date" ->
               Handled(<<"T","o","d","a","y","'","s"," ","d","a","t","e"," ","i","s"," ">> \o FormatDate(e.now),
                       <<Call("datetime.now", << >>)>>, << >>, << >>, << >>, << >>,
                       FALSE, FALSE)
          [] rule = "wikipedia" -> WikipediaRule(q, e.wiki)
          [] rule = "open" -> OpenRule(q, os, e.oc)
          [] OTHER ->
               Handled(<<"S","o","r","r","y",","," ","I"," ","d","o","n","'","t"," ","k","n","o","w"," ","t","h","a","t"," ","y","e","t",".">>, << >>, << >>, << >>, << >>,
                       << >>, FALSE, FALSE)

\* the answers of the host that the branch taken for qry consults
HostAnswers(qry, os) ==
    LET q    == Strip(Lower(qry))
        rule == Classify(q)
    IN  CASE rule \in {"time", "date"} ->
               {[now |-> n, wiki |-> NoAnswer, oc |-> << >>] : n \in Instants}
          [] rule = "wikipedia" ->
               {[now |-> NoInstant, wiki |-> w, oc |-> << >>] : w \in WikiAnswers}
          [] rule = "open" ->
               {[now |-> NoInstant, wiki |-> NoAnswer, oc |-> o] :
                    o \in OutcomeVectors(StartsOf(AppName(q), os))}
          [] OTHER -> {[now |-> NoInstant, wiki |-> NoAnswer, oc |-> << >>]}

-----------------------------------------------------------------------------
(* The assistant loop: VoiceAssistant.run. *)

\* line 24: "exit" in query or "quit" in query, on the query as heard
ExitPhrase(q) == Contains(<<"e","x","i","t">>, q) \/ Contains(<<"q","u","i","t">>, q)

\* the queries speech.listen() returns
QueryFrags == {<<"o","p","e","n">>, <<"o","p","e","n"," ">>, <<"t","i","m","e">>, <<"d","a","t","e">>, <<"w","i","k","i","p","e","d","i","a">>, <<"e","x","i","t">>, <<"q","u","i","t">>, <<" ">>,
               <<"c","a","l","c","u","l","a","t","o","r">>, <<"y","o","u","t","u","b","e">>, <<"o","o","p">>, <<"e","n","p","e","n">>, <<"O","p","e","n"," ">>, <<"X","y">>}
Queries == Texts(QueryFrags, MaxQueryFrags)

\* lines 22-23: listen() returned nothing (None or ""); the loop goes round
HearNothing ==
    /\ running /\ op = "idle"
    /\ op' = "silence"
    /\ UNCHANGED <<os_name, volume_ok, level, prevLevel, running, caught, query,
                   name, volArg, outcomes, popen, urls, calls, mech, result, raised>>

\* lines 24-26: an exit or quit phrase: say goodbye and break
HearExit ==
    /\ running /\ op = "idle"
    /\ \E q \in Queries \ {<< >>} :
        /\ ExitPhrase(q)
        /\ query' = q
    /\ op' = "exit"
    /\ result' = <<"G","o","o","d","b","y","e","!"," ","H","a","v","e"," ","a"," ","n","i","c","e"," ","d","a","y",".">>
    /\ running' = FALSE
    /\ UNCHANGED <<os_name, volume_ok, level, prevLevel, caught, name, volArg,
                   outcomes, popen, urls, calls, mech, raised>>

\* lines 27-29: any other query goes to handle_command and the response is
\* spoken; an exception leaving handle_command would leave run() as well
HearCommand ==
    /\ running /\ op = "idle"
    /\ \E q \in Queries \ {<< >>} :
        /\ ~ExitPhrase(q)
        /\ \E e \in HostAnswers(q, os_name) :
            \E h \in {HandleCommand(q, os_name, e)} :
                /\ query' = q
                /\ op' = "handle_command"
                /\ result' = h.result
                /\ calls' = h.calls
                /\ name' = h.name
                /\ outcomes' = h.outcomes
                /\ popen' = h.popen
                /\ urls' = h.urls
                /\ caught' = (caught \/ h.caught)
                /\ raised' = h.raised
                /\ running' = ~h.raised
    /\ UNCHANGED <<os_name, volume_ok, level, prevLevel, volArg, mech>>

\* line 21: `while True` goes round; the next iteration starts from blank
\* observations
LoopBack ==
    /\ running
    /\ op \in {"silence", "handle_command"}
    /\ op' = "idle"
    /\ query' = << >>
    /\ name' = << >>
    /\ outcomes' = << >>
    /\ popen' = << >>
    /\ urls' = << >>
    /\ calls' = << >>
    /\ result' = << >>
    /\ raised' = FALSE
    /\ UNCHANGED <<os_name, volume_ok, level, prevLevel, running, caught, volArg, mech>>

Next == HearNothing \/ HearExit \/ HearCommand \/ LoopBack

Spec == Init /\ [][Next]_vars

-----------------------------------------------------------------------------
(* Volume control surface: SystemController.set_volume. *)

\* line 164 with the upper bound lost
ValidLevelNoUpper(l) == MinVolume <= l

\* line 164: 0 <= level <= 100
ValidLevel(l) == MinVolume <= l /\ l <= MaxVolume

\* min(100, .) and max(0, .) of lines 203 and 207, and the clamping a host
\* mixer applies to a level outside its range
Clamp(l) == IF l < MinVolume THEN MinVolume ELSE IF l > MaxVolume THEN MaxVolume ELSE l

\* one invocation of a platform volume mechanism: the tool, the command line (for
\* a subprocess), the kind of request and its value in percent
Mechanism(tool, argv, kind, value) ==
    [tool |-> tool, argv |-> argv, kind |-> kind, value |-> value]

NoCmd == Mechanism("none", << >>, "none", 0)

Amixer(last, kind, value) ==
    Mechanism("amixer", <<<<"a","m","i","x","e","r">>, <<"-","D">>, <<"p","u","l","s","e">>, <<"s","s","e","t">>, <<"M","a","s","t","e","r">>>> \o last, kind, value)

Osascript(script, kind, value) ==
    Mechanism("osascript", <<<<"o","s","a","s","c","r","i","p","t">>, <<"-","e">>, script>>, kind, value)

\* _get_volume_control_cmd(action, level) when a volume of cur percent is set on
\* the host: the command, and what it asks of the host. The AppleScript of
\* increase/decrease reads the output volume and asks for that plus or minus 5.
VolumeControlCmd(os, action, lvl, cur) ==
    CASE os = "Linux" /\ action = <<"m","u","t","e">> ->
           Amixer(<<<<"0","%">>>>, "absolute", 0)
      [] os = "Linux" /\ action = <<"u","n","m","u","t","e">> ->
           Amixer(<<<<"u","n","m","u","t","e">>>>, "muted", 0)
      [] os = "Linux" /\ action = <<"s","e","t">> ->
           Amixer(<<Digits(lvl) \o <<"%">>>>, "absolute", lvl)
      [] os = "Linux" /\ action = <<"i","n","c","r","e","a","s","e">> ->
           Amixer(<<<<"5","%","+">>, <<"u","n","m","u","t","e">>>>, "relative", VolumeStep)
      [] os = "Linux" /\ action = <<"d","e","c","r","e","a","s","e">> ->
           Amixer(<<<<"5","%","-">>, <<"u","n","m","u","t","e">>>>, "relative", 0 - VolumeStep)
      [] os = "Darwin" /\ action = <<"m","u","t","e">> ->
           Osascript(<<"s","e","t"," ","v","o","l","u","m","e"," ","o","u","t","p","u","t"," ","m","u","t","e","d"," ","t","r","u","e">>, "muted", 1)
      [] os = "Darwin" /\ action = <<"u","n","m","u","t","e">> ->
           Osascript(<<"s","e","t"," ","v","o","l","u","m","e"," ","o","u","t","p","u","t"," ","m","u","t","e","d"," ","f","a","l","s","e">>, "muted", 0)
      [] os = "Darwin" /\ action = <<"s","e","t">> ->
           Osascript(<<"s","e","t"," ","v","o","l","u","m","e"," ","o","u","t","p","u","t"," ","v","o","l","u","m","e"," ">> \o Digits(lvl), "absolute", lvl)
      [] os = "Darwin" /\ action = <<"i","n","c","r","e","a","s","e">> ->
           Osascript(<<"s","e","t"," ","v","o","l","u","m","e"," ","o","u","t","p","u","t"," ","v","o","l","u","m","e"," ","(","(","g","e","t"," ","v","o","l","u","m","e"," ","s","e","t","t","i","n","g","s",")","'","s"," ","o","u","t","p","u","t"," ","v","o","l","u","m","e"," ","+"," ","5",")">>,
                     "absolute", cur + VolumeStep)
      [] os = "Darwin" /\ action = <<"d","e","c","r","e","a","s","e">> ->
           Osascript(<<"s","e","t"," ","v","o","l","u","m","e"," ","o","u","t","p","u","t"," ","v","o","l","u","m","e"," ","(","(","g","e","t"," ","v","o","l","u","m","e"," ","s","e","t","t","i","n","g","s",")","'","s"," ","o","u","t","p","u","t"," ","v","o","l","u","m","e"," ","-"," ","5",")">>,
                     "absolute", cur - VolumeStep)
      [] OTHER -> NoCmd

\* the host's volume after it has carried out a request
HostLevel(m, cur) ==
    CASE m.kind = "absolute" -> Clamp(m.value)
      [] m.kind = "relative" -> Clamp(cur + m.value)
      [] OTHER -> cur

\* what set_volume leaves behind
VolumeDone(res, ms, lvl, raisedNow) ==
    [result |-> res, mech |-> ms, level |-> lvl, raised |-> raisedNow]

\* how the host answers a mechanism invocation: it works; it fails (a command
\* exits non-zero: CalledProcessError, an endpoint call raises); or the tool is
\* not installed (FileNotFoundError from subprocess.run)
MechAnswers == {"ok", "failed", "missing"}

CalledProcessErrorText == <<"C","o","m","m","a","n","d"," ","r","e","t","u","r","n","e","d"," ","n","o","n","-","z","e","r","o"," ","e","x","i","t"," ","s","t","a","t","u","s"," ","1",".">>
EndpointErrorText == <<"e","n","d","p","o","i","n","t"," ","c","a","l","l"," ","f","a","i","l","e","d">>

Endpoint(request, kind, value) == Mechanism("IAudioEndpointVolume", <<request>>, kind, value)

\* lines 180-187 and 213-220: subprocess.run(cmd, check=True); only
\* CalledProcessError is caught
RunVolumeCmd(cmd, okMsg, errMsg, noneMsg, cur, ans) ==
    IF cmd = NoCmd THEN VolumeDone(noneMsg, << >>, cur, FALSE)
    ELSE CASE ans = "ok" -> VolumeDone(okMsg, <<cmd>>, HostLevel(cmd, cur), FALSE)
           [] ans = "failed" ->
                VolumeDone(errMsg \o CalledProcessErrorText, <<cmd>>, cur, FALSE)
           [] OTHER -> VolumeDone(<< >>, <<cmd>>, cur, TRUE)

\* lines 162-187: an integer level. dev is the volume the Windows endpoint ends
\* at when asked for the decibel level lvl percent up its range.
SetLevel(lvl, os, vok, cur, ans, dev) ==
    IF ~ValidLevel(lvl)
    THEN VolumeDone(<<"E","r","r","o","r",":"," ","V","o","l","u","m","e"," ","l","e","v","e","l"," ","m","u","s","t"," ","b","e"," ","b","e","t","w","e","e","n"," ","0"," ","a","n","d"," ","1","0","0",".">>, << >>, cur, FALSE)
    ELSE IF os = "Windows"
    THEN IF ~vok
         THEN VolumeDone(<<"W","i","n","d","o","w","s"," ","a","u","d","i","o"," ","c","o","n","t","r","o","l"," ","n","o","t"," ","i","n","i","t","i","a","l","i","z","e","d","."," ","C","a","n","n","o","t"," ","s","e","t"," ","v","o","l","u","m","e",".">>,
                         << >>, cur, FALSE)
         ELSE IF ans = "ok"
              THEN VolumeDone(<<"S","e","t","t","i","n","g"," ","v","o","l","u","m","e"," ","t","o"," ">> \o Digits(lvl) \o <<"%">>,
                              <<Endpoint(<<"G","e","t","V","o","l","u","m","e","R","a","n","g","e">>, "read", 0),
                                Endpoint(<<"S","e","t","M","a","s","t","e","r","V","o","l","u","m","e","L","e","v","e","l">>, "decibel", lvl)>>,
                              dev, FALSE)
              ELSE VolumeDone(<<"E","r","r","o","r"," ","s","e","t","t","i","n","g"," ","v","o","l","u","m","e"," ","o","n"," ","W","i","n","d","o","w","s",":"," ">> \o EndpointErrorText,
                              <<Endpoint(<<"G","e","t","V","o","l","u","m","e","R","a","n","g","e">>, "read", 0)>>, cur, FALSE)
    ELSE RunVolumeCmd(VolumeControlCmd(os, <<"s","e","t">>, lvl, cur),
                      <<"S","e","t","t","i","n","g"," ","v","o","l","u","m","e"," ","t","o"," ">> \o Digits(lvl) \o <<"%">>,
                      <<"E","r","r","o","r"," ","s","e","t","t","i","n","g"," ","v","o","l","u","m","e",":"," ">>,
                      <<"V","o","l","u","m","e"," ","c","o","n","t","r","o","l"," ","n","o","t"," ","s","u","p","p","o","r","t","e","d"," ","o","n"," ","t","h","i","s"," ","O","S",".">>, cur, ans)

\* lines 194-211: a named action on the Windows endpoint
WindowsAction(action, cur, ans) ==
    IF ans # "ok"
    THEN VolumeDone(<<"E","r","r","o","r"," ","c","o","n","t","r","o","l","l","i","n","g"," ","v","o","l","u","m","e"," ","o","n"," ","W","i","n","d","o","w","s",":"," ">> \o EndpointErrorText,
                    <<Endpoint(<<"G","e","t","M","a","s","t","e","r","V","o","l","u","m","e","L","e","v","e","l","S","c","a","l","a","r">>, "read", 0)>>, cur, FALSE)
    ELSE CASE action = <<"m","u","t","e">> ->
                VolumeDone(<<"M","u","t","i","n","g"," ","v","o","l","u","m","e",".">>,
                           <<Endpoint(<<"G","e","t","M","a","s","t","e","r","V","o","l","u","m","e","L","e","v","e","l","S","c","a","l","a","r">>, "read", 0),
                             Endpoint(<<"S","e","t","M","u","t","e">>, "muted", 1)>>, cur, FALSE)
           [] action = <<"u","n","m","u","t","e">> ->
                VolumeDone(<<"U","n","m","u","t","i","n","g"," ","v","o","l","u","m","e",".">>,
                           <<Endpoint(<<"G","e","t","M","a","s","t","e","r","V","o","l","u","m","e","L","e","v","e","l","S","c","a","l","a","r">>, "read", 0),
                             Endpoint(<<"S","e","t","M","u","t","e">>, "muted", 0)>>, cur, FALSE)
           [] action = <<"i","n","c","r","e","a","s","e">> ->
                LET new_level == IF cur + VolumeStep < MaxVolume
                                 THEN cur + VolumeStep ELSE MaxVolume
                IN  VolumeDone(<<"I","n","c","r","e","a","s","i","n","g"," ","v","o","l","u","m","e"," ","t","o"," ">> \o Digits(new_level) \o <<"%">>,
                               <<Endpoint(<<"G","e","t","M","a","s","t","e","r","V","o","l","u","m","e","L","e","v","e","l","S","c","a","l","a","r">>, "read", 0),
                                 Endpoint(<<"S","e","t","M","a","s","t","e","r","V","o","l","u","m","e","L","e","v","e","l","S","c","a","l","a","r">>, "absolute",
                                          new_level)>>, new_level, FALSE)
           [] OTHER ->
                LET new_level == IF cur - VolumeStep > MinVolume
                                 THEN cur - VolumeStep ELSE MinVolume
                IN  VolumeDone(<<"D","e","c","r","e","a","s","i","n","g"," ","v","o","l","u","m","e"," ","t","o"," ">> \o Digits(new_level) \o <<"%">>,
                               <<Endpoint(<<"G","e","t","M","a","s","t","e","r","V","o","l","u","m","e","L","e","v","e","l","S","c","a","l","a","r">>, "read", 0),
                                 Endpoint(<<"S","e","t","M","a","s","t","e","r","V","o","l","u","m","e","L","e","v","e","l","S","c","a","l","a","r">>, "absolute",
                                          new_level)>>, new_level, FALSE)

VolumeActions == {<<"m","u","t","e">>, <<"u","n","m","u","t","e">>, <<"i","n","c","r","e","a","s","e">>, <<"d","e","c","r","e","a","s","e">>}

\* lines 188-222: a string
SetAction(text, os, vok, cur, ans) ==
    LET action == Lower(text)
    IN  IF action \notin VolumeActions
        THEN VolumeDone(<<"I","n","v","a","l","i","d"," ","v","o","l","u","m","e"," ","a","c","t","i","o","n","."," ","U","s","e"," ","'","m","u","t","e","'",","," ","'","u","n","m","u","t","e","'",","," ","'","i","n","c","r","e","a","s","e","'",","," ","'","d","e","c","r","e","a","s","e","'"," ","o","r"," ","a"," ","p","e","r","c","e","n","t","a","g","e",".">>,
                        << >>, cur, FALSE)
        ELSE IF os = "Windows"
        THEN IF ~vok
             THEN VolumeDone(<<"W","i","n","d","o","w","s"," ","a","u","d","i","o"," ","c","o","n","t","r","o","l"," ","n","o","t"," ","i","n","i","t","i","a","l","i","z","e","d","."," ","C","a","n","n","o","t"," ","c","o","n","t","r","o","l"," ","v","o","l","u","m","e",".">>,
                             << >>, cur, FALSE)
             ELSE WindowsAction(action, cur, ans)
        ELSE RunVolumeCmd(VolumeControlCmd(os, action, 0, cur),
                          Capitalize(action) \o <<"i","n","g"," ","v","o","l","u","m","e",".">>,
                          <<"E","r","r","o","r"," ">> \o action \o <<"i","n","g"," ","v","o","l","u","m","e",":"," ">>,
                          <<"V","o","l","u","m","e"," ">> \o action \o <<" ","n","o","t"," ","s","u","p","p","o","r","t","e","d"," ","o","n"," ","t","h","i","s"," ","O","S",".">>, cur, ans)

\* set_volume(level_or_action)
SetVolume(arg, os, vok, cur, ans, dev) ==
    CASE arg.type = "int" -> SetLevel(arg.value, os, vok, cur, ans, dev)
      [] arg.type = "str" -> SetAction(arg.text, os, vok, cur, ans)
      [] OTHER -> VolumeDone(<<"I","n","v","a","l","i","d"," ","v","o","l","u","m","e"," ","c","o","m","m","a","n","d"," ","t","y","p","e",".">>, << >>, cur, FALSE)

IntArg(n) == [type |-> "int", value |-> n, text |-> << >>]
StrArg(t) == [type |-> "str", value |-> 0, text |-> t]
\* neither an int nor a str (a float, None)
OtherArg == [type |-> "other", value |-> 0, text |-> << >>]

\* the arguments given to set_volume
VolumeArgs ==
    {IntArg(n) : n \in ((MinVolume - VolumeSlack)..(MinVolume + VolumeSlack))
                       \cup ((MaxVolume - VolumeSlack)..(MaxVolume + VolumeSlack))
                       \cup {(MinVolume + MaxVolume) \div 2}}
    \cup {StrArg(t) : t \in VolumeActions \cup {<<"I","n","c","r","e","a","s","e">>, <<"l","o","u","d","e","r">>}}
    \cup {OtherArg}

\* the volume the Windows endpoint may end at for a decibel level lvl percent up
\* its range: the ends of the range are the ends of the scale, the taper in
\* between is the device's
EndpointLevels(arg, os, cur) ==
    IF os = "Windows" /\ arg.type = "int" /\ arg.value > MinVolume /\ arg.value < MaxVolume
    THEN MinVolume..MaxVolume
    ELSE IF os = "Windows" /\ arg.type = "int" THEN {Clamp(arg.value)}
    ELSE {cur}

\* a caller invokes set_volume(arg)
CallSetVolume ==
    /\ op = "idle"
    /\ \E arg \in VolumeArgs, ans \in MechAnswers :
       \E dev \in EndpointLevels(arg, os_name, level) :
       \E r \in {SetVolume(arg, os_name, volume_ok, level, ans, dev)} :
            /\ op' = "set_volume"
            /\ volArg' = arg
            /\ outcomes' = <<ans>>
            /\ prevLevel' = level
            /\ level' = r.level
            /\ mech' = r.mech
            /\ result' = r.result
            /\ raised' = r.raised
    /\ UNCHANGED <<os_name, volume_ok, running, caught, query, name, popen, urls, calls>>

InitVolume == InitSystem(MinVolume..MaxVolume)

NextVolume == CallSetVolume \/ Return

SpecVolume == InitVolume /\ [][NextVolume]_vars

-----------------------------------------------------------------------------
(* Brightness, power and media control surfaces. *)

\* what a control surface leaves behind: the string returned, the mechanism
\* invocations, the Popen calls of _try_launch, and whether an exception left it
SurfaceDone(res, ms, starts, raisedNow) ==
    [result |-> res, mech |-> ms, popen |-> starts, raised |-> raisedNow]

Run(tool, argv) == Mechanism(tool, argv, "run", 0)

\* subprocess.run(cmd, check=True) inside `try ... except (CalledProcessError,
\* FileNotFoundError)`: every answer of the host gives a string
RunGuarded(cmd, okMsg, errMsg, ans) ==
    IF ans = "ok" THEN SurfaceDone(okMsg, <<cmd>>, << >>, FALSE)
    ELSE SurfaceDone(errMsg, <<cmd>>, << >>, FALSE)

\* subprocess.run(cmd, check=True) inside `try ... except CalledProcessError`:
\* a missing tool (FileNotFoundError) leaves the operation
RunHalfGuarded(cmd, okMsg, errMsg, ans) ==
    CASE ans = "ok" -> SurfaceDone(okMsg, <<cmd>>, << >>, FALSE)
      [] ans = "failed" ->
           SurfaceDone(errMsg \o CalledProcessErrorText, <<cmd>>, << >>, FALSE)
      [] OTHER -> SurfaceDone(<< >>, <<cmd>>, << >>, TRUE)

\* subprocess.run(cmd, check=True) with no try around it: a non-zero exit and a
\* missing tool both leave the operation
RunUnguarded(cmd, okMsg, ans) ==
    IF ans = "ok" THEN SurfaceDone(okMsg, <<cmd>>, << >>, FALSE)
    ELSE SurfaceDone(<< >>, <<cmd>>, << >>, TRUE)

\* str(level / 100.0) for an integer level in 0..100
FloatStr(n) ==
    IF n = MaxVolume THEN <<"1",".","0">>
    ELSE <<"0",".">> \o (IF n % 10 = 0 THEN Digits(n \div 10) ELSE Pad2(n))

\* line.split(" ")[0]
FirstField(line) ==
    IF \E i \in 1..Len(line) : line[i] = " "
    THEN SubSeq(line, 1, (CHOOSE i \in 1..Len(line) :
                             line[i] = " " /\ \A j \in 1..(i - 1) : line[j] # " ") - 1)
    ELSE line

\* lines 243-247: the first field of the first line holding " connected primary"
RECURSIVE PrimaryDisplay(_)
PrimaryDisplay(lines) ==
    IF lines = << >> THEN << >>
    ELSE IF Contains(<<" ","c","o","n","n","e","c","t","e","d"," ","p","r","i","m","a","r","y">>, Head(lines)) THEN FirstField(Head(lines))
         ELSE PrimaryDisplay(Tail(lines))

\* what `xrandr --query` may print
XrandrOutputs ==
    {<<<<"S","c","r","e","e","n"," ","0",":"," ","m","i","n","i","m","u","m"," ","3","2","0"," ","x"," ","2","0","0">>, <<"e","D","P","-","1"," ","c","o","n","n","e","c","t","e","d"," ","p","r","i","m","a","r","y"," ","1","9","2","0","x","1","0","8","0","+","0","+","0">>,
       <<"H","D","M","I","-","1"," ","d","i","s","c","o","n","n","e","c","t","e","d">>>>,
     <<<<"S","c","r","e","e","n"," ","0",":"," ","m","i","n","i","m","u","m"," ","3","2","0"," ","x"," ","2","0","0">>, <<"e","D","P","-","1"," ","c","o","n","n","e","c","t","e","d"," ","1","9","2","0","x","1","0","8","0","+","0","+","0">>>>,
     << >>}

SetBrightnessMsg(lvl) == <<"S","e","t","t","i","n","g"," ","b","r","i","g","h","t","n","e","s","s"," ","t","o"," ">> \o Digits(lvl) \o <<"%">>

\* lines 240-255: xrandr is asked for the outputs, then for the brightness
LinuxBrightness(lvl, ans, ans2, out) ==
    LET q == Run("xrandr", <<<<"x","r","a","n","d","r">>, <<"-","-","q","u","e","r","y">>>>)
    IN  IF ans # "ok"
        THEN SurfaceDone(<<"B","r","i","g","h","t","n","e","s","s"," ","c","o","n","t","r","o","l"," ","(","x","r","a","n","d","r",")"," ","n","o","t"," ","f","o","u","n","d"," ","o","r"," ","f","a","i","l","e","d",".">>, <<q>>,
                         << >>, FALSE)
        ELSE LET display_name == PrimaryDisplay(out)
                 set == Run("xrandr", <<<<"x","r","a","n","d","r">>, <<"-","-","o","u","t","p","u","t">>, display_name,
                                        <<"-","-","b","r","i","g","h","t","n","e","s","s">>, FloatStr(lvl)>>)
             IN  IF display_name = << >>
                 THEN SurfaceDone(<<"C","o","u","l","d"," ","n","o","t"," ","d","e","t","e","r","m","i","n","e"," ","p","r","i","m","a","r","y"," ","d","i","s","p","l","a","y"," ","f","o","r"," ","x","r","a","n","d","r",".">>,
                                  <<q>>, << >>, FALSE)
                 ELSE IF ans2 = "ok"
                 THEN SurfaceDone(SetBrightnessMsg(lvl) \o <<" ","o","n"," ">> \o display_name,
                                  <<q, set>>, << >>, FALSE)
                 ELSE SurfaceDone(<<"B","r","i","g","h","t","n","e","s","s"," ","c","o","n","t","r","o","l"," ","(","x","r","a","n","d","r",")"," ","n","o","t"," ","f","o","u","n","d"," ","o","r"," ","f","a","i","l","e","d",".">>,
                                  <<q, set>>, << >>, FALSE)

\* change_brightness(level)
ChangeBrightness(lvl, os, ans, ans2, out) ==
    IF ~(MinVolume <= lvl /\ lvl <= MaxVolume)
    THEN SurfaceDone(<<"E","r","r","o","r",":"," ","B","r","i","g","h","t","n","e","s","s"," ","l","e","v","e","l"," ","m","u","s","t"," ","b","e"," ","b","e","t","w","e","e","n"," ","0"," ","a","n","d"," ","1","0","0",".">>, << >>,
                     << >>, FALSE)
    ELSE CASE os = "Windows" ->
                RunGuarded(Run("powershell.exe",
                               <<<<"p","o","w","e","r","s","h","e","l","l",".","e","x","e">>,
                                 <<"(","G","e","t","-","W","m","i","O","b","j","e","c","t"," ","-","N","a","m","e","s","p","a","c","e"," ","r","o","o","t","/","W","M","I"," ","-","C","l","a","s","s"," ","W","m","i","M","o","n","i","t","o","r","B","r","i","g","h","t","n","e","s","s","M","e","t","h","o","d","s",")",".","W","m","i","S","e","t","B","r","i","g","h","t","n","e","s","s","(","1",","," ">>
                                   \o Digits(lvl) \o <<")">>>>),
                           SetBrightnessMsg(lvl),
                           <<"E","r","r","o","r"," ","s","e","t","t","i","n","g"," ","b","r","i","g","h","t","n","e","s","s"," ","o","n"," ","W","i","n","d","o","w","s","."," ","T","h","i","s"," ","m","e","t","h","o","d"," ","m","i","g","h","t"," ","r","e","q","u","i","r","e"," ","a","d","m","i","n"," ","p","r","i","v","i","l","e","g","e","s"," ","o","r"," ","n","o","t"," ","b","e"," ","s","u","p","p","o","r","t","e","d"," ","o","n"," ","y","o","u","r"," ","d","i","s","p","l","a","y",".">>,
                           ans)
           [] os = "Linux" -> LinuxBrightness(lvl, ans, ans2, out)
           [] os = "Darwin" ->
                RunGuarded(Run("osascript",
                               <<<<"o","s","a","s","c","r","i","p","t">>, <<"-","e">>,
                                 <<"t","e","l","l"," ","a","p","p","l","i","c","a","t","i","o","n"," ","\"","S","y","s","t","e","m"," ","E","v","e","n","t","s","\""," ","t","o"," ","s","e","t"," ","b","r","i","g","h","t","n","e","s","s"," ","o","f"," ","c","u","r","r","e","n","t"," ","d","i","s","p","l","a","y"," ","t","o"," ">>
                                   \o FloatStr(lvl)>>),
                           SetBrightnessMsg(lvl),
                           <<"B","r","i","g","h","t","n","e","s","s"," ","c","o","n","t","r","o","l"," ","n","o","t"," ","s","u","p","p","o","r","t","e","d"," ","o","r"," ","f","a","i","l","e","d"," ","o","n"," ","m","a","c","O","S",".">>, ans)
           [] OTHER ->
                SurfaceDone(<<"B","r","i","g","h","t","n","e","s","s"," ","c","o","n","t","r","o","l"," ","n","o","t"," ","s","u","p","p","o","r","t","e","d"," ","o","n"," ","t","h","i","s"," ","O","S",".">>, << >>, << >>,
                            FALSE)

SudoErrMsg == <<"E","r","r","o","r",":"," ","C","o","m","m","a","n","d"," ","f","a","i","l","e","d","."," ","Y","o","u"," ","m","a","y"," ","n","e","e","d"," ","t","o"," ","r","u","n"," ","w","i","t","h"," ","s","u","d","o"," ","p","e","r","m","i","s","s","i","o","n","s","."," ">>

\* lines 271-291: shutdown and restart
PowerOff(action, os, ans) ==
    LET down == action = <<"s","h","u","t","d","o","w","n">>
        msg  == <<"I","n","i","t","i","a","t","i","n","g"," ">> \o action \o <<".">>
    IN  CASE os = "Windows" ->
               RunUnguarded(Run("shutdown", <<<<"s","h","u","t","d","o","w","n">>, IF down THEN <<"/","s">> ELSE <<"/","r">>,
                                              <<"/","t">>, <<"0">>>>), msg, ans)
          [] os = "Darwin" ->
               RunHalfGuarded(Run("sudo", IF down THEN <<<<"s","u","d","o">>, <<"s","h","u","t","d","o","w","n">>, <<"-","h">>, <<"n","o","w">>>>
                                                  ELSE <<<<"s","u","d","o">>, <<"r","e","b","o","o","t">>>>),
                              msg, SudoErrMsg, ans)
          [] os = "Linux" ->
               RunHalfGuarded(Run("sudo", IF down THEN <<<<"s","u","d","o">>, <<"p","o","w","e","r","o","f","f">>>>
                                                  ELSE <<<<"s","u","d","o">>, <<"r","e","b","o","o","t">>>>),
                              msg, SudoErrMsg, ans)
          [] OTHER ->
               SurfaceDone(Capitalize(action) \o <<" ","n","o","t"," ","s","u","p","p","o","r","t","e","d"," ","o","n"," ","t","h","i","s"," ","O","S",".">>, << >>,
                           << >>, FALSE)

\* lines 292-299: hibernate and suspend
PowerSleep(os, ans) ==
    CASE os = "Windows" ->
           RunUnguarded(Run("rundll32.exe", <<<<"r","u","n","d","l","l","3","2",".","e","x","e">>, <<"p","o","w","r","p","r","o","f",".","d","l","l",",","S","e","t","S","u","s","p","e","n","d","S","t","a","t","e">>,
                                              <<"0",",","1",",","0">>>>),
                        <<"I","n","i","t","i","a","t","i","n","g"," ","h","i","b","e","r","n","a","t","i","o","n",".">>, ans)
      [] os = "Linux" ->
           RunUnguarded(Run("systemctl", <<<<"s","y","s","t","e","m","c","t","l">>, <<"s","u","s","p","e","n","d">>>>),
                        <<"I","n","i","t","i","a","t","i","n","g"," ","s","u","s","p","e","n","d",".">>, ans)
      [] OTHER ->
           SurfaceDone(<<"H","i","b","e","r","n","a","t","i","o","n","/","S","u","s","p","e","n","d"," ","n","o","t"," ","s","u","p","p","o","r","t","e","d"," ","o","n"," ","t","h","i","s"," ","O","S",".">>, << >>, << >>, FALSE)

LinuxLockers == <<<<<<"g","n","o","m","e","-","s","c","r","e","e","n","s","a","v","e","r","-","c","o","m","m","a","n","d">>, <<"-","-","l","o","c","k">>>>, <<<<"x","d","g","-","s","c","r","e","e","n","s","a","v","e","r">>, <<"l","o","c","k">>>>,
                  <<<<"d","m","-","t","o","o","l">>, <<"l","o","c","k">>>>>>

\* lines 309-313: the lockers are tried in order through _try_launch
RECURSIVE LockWalk(_, _)
LockWalk(oc, i) ==
    IF i > Len(LinuxLockers) THEN << >>
    ELSE LET a == TryLaunch(LinuxLockers[i], oc[i])
         IN  IF a.ok THEN <<a.call>> ELSE <<a.call>> \o LockWalk(oc, i + 1)

\* lines 300-318: lock. LockWorkStation and CGSession are called with no try
\* around them.
PowerLock(os, ans, oc) ==
    CASE os = "Windows" ->
           IF ans = "ok"
           THEN SurfaceDone(<<"L","o","c","k","i","n","g"," ","t","h","e"," ","c","o","m","p","u","t","e","r",".">>,
                            <<Mechanism("user32", <<<<"L","o","c","k","W","o","r","k","S","t","a","t","i","o","n">>>>, "call", 0)>>,
                            << >>, FALSE)
           ELSE SurfaceDone(<< >>, <<Mechanism("user32", <<<<"L","o","c","k","W","o","r","k","S","t","a","t","i","o","n">>>>, "call", 0)>>,
                            << >>, TRUE)
      [] os = "Darwin" ->
           RunUnguarded(Run("CGSession",
                            <<<<"/","S","y","s","t","e","m","/","L","i","b","r","a","r","y","/","C","o","r","e","S","e","r","v","i","c","e","s","/","M","e","n","u"," ","E","x","t","r","a","s","/","U","s","e","r",".","m","e","n","u","/","C","o","n","t","e","n","t","s","/","R","e","s","o","u","r","c","e","s","/","C","G","S","e","s","s","i","o","n">>,
                              <<"-","s","u","s","p","e","n","d">>>>),
                        <<"L","o","c","k","i","n","g"," ","t","h","e"," ","c","o","m","p","u","t","e","r",".">>, ans)
      [] os = "Linux" ->
           LET log == LockWalk(oc, 1)
           IN  IF Launched(log)
               THEN SurfaceDone(<<"L","o","c","k","i","n","g"," ","t","h","e"," ","s","c","r","e","e","n",".">>, << >>, log, FALSE)
               ELSE SurfaceDone(<<"S","c","r","e","e","n"," ","l","o","c","k"," ","c","o","m","m","a","n","d"," ","n","o","t"," ","f","o","u","n","d","."," ","Y","o","u"," ","m","a","y"," ","n","e","e","d"," ","t","o"," ","i","n","s","t","a","l","l"," ","a"," ","s","c","r","e","e","n","s","a","v","e","r"," ","o","r"," ","l","o","c","k","e","r",".">>,
                                << >>, log, FALSE)
      [] OTHER -> SurfaceDone(<<"S","c","r","e","e","n"," ","l","o","c","k"," ","n","o","t"," ","s","u","p","p","o","r","t","e","d"," ","o","n"," ","t","h","i","s"," ","O","S",".">>, << >>, << >>, FALSE)

\* power_control(action)
PowerControl(text, os, ans, oc) ==
    LET action == Lower(text)
    IN  CASE action \in {<<"s","h","u","t","d","o","w","n">>, <<"r","e","s","t","a","r","t">>} -> PowerOff(action, os, ans)
          [] action \in {<<"h","i","b","e","r","n","a","t","e">>, <<"s","u","s","p","e","n","d">>} -> PowerSleep(os, ans)
          [] action = <<"l","o","c","k">> -> PowerLock(os, ans, oc)
          [] OTHER -> SurfaceDone(<<"U","n","k","n","o","w","n"," ","p","o","w","e","r"," ","c","o","n","t","r","o","l"," ","a","c","t","i","o","n",":"," ">> \o action, << >>,
                                  << >>, FALSE)

MediaActions == {<<"p","l","a","y">>, <<"p","a","u","s","e">>, <<"p","l","a","y","/","p","a","u","s","e">>, <<"s","t","o","p">>, <<"n","e","x","t">>, <<"p","r","e","v","i","o","u","s">>}

\* key_map of lines 420-423: the virtual-key code of a media action
MediaKey(action) ==
    CASE action \in {<<"p","l","a","y">>, <<"p","a","u","s","e">>, <<"p","l","a","y","/","p","a","u","s","e">>} -> 179
      [] action = <<"s","t","o","p">> -> 178
      [] action = <<"n","e","x","t">> -> 176
      [] OTHER -> 177

\* script_map of lines 446-449
MediaScript(action) ==
    CASE action = <<"p","l","a","y","/","p","a","u","s","e">> -> <<"p","l","a","y","p","a","u","s","e">>
      [] action = <<"n","e","x","t">> -> <<"n","e","x","t"," ","t","r","a","c","k">>
      [] action = <<"p","r","e","v","i","o","u","s">> -> <<"p","r","e","v","i","o","u","s"," ","t","r","a","c","k">>
      [] OTHER -> action

FileNotFoundText == <<"[","E","r","r","n","o"," ","2","]"," ","N","o"," ","s","u","c","h"," ","f","i","l","e"," ","o","r"," ","d","i","r","e","c","t","o","r","y",":"," ","'","o","s","a","s","c","r","i","p","t","'">>

\* media_control(action): every branch sits in `try ... except Exception`
MediaControl(text, os, ans) ==
    LET action == Lower(text)
        done   == <<"P","e","r","f","o","r","m","e","d"," ","m","e","d","i","a"," ","a","c","t","i","o","n",":"," ">> \o action
    IN  CASE os = "Windows" ->
               IF action \notin MediaActions
               THEN SurfaceDone(<<"U","n","s","u","p","p","o","r","t","e","d"," ","m","e","d","i","a"," ","a","c","t","i","o","n"," ","o","n"," ","W","i","n","d","o","w","s",":"," ">> \o action, << >>,
                                << >>, FALSE)
               ELSE IF ans = "ok"
               THEN SurfaceDone(done,
                                <<Mechanism("user32", <<<<"k","e","y","b","d","_","e","v","e","n","t">>>>, "keydown",
                                            MediaKey(action)),
                                  Mechanism("user32", <<<<"k","e","y","b","d","_","e","v","e","n","t">>>>, "keyup",
                                            MediaKey(action))>>, << >>, FALSE)
               ELSE SurfaceDone(<<"E","r","r","o","r"," ","c","o","n","t","r","o","l","l","i","n","g"," ","m","e","d","i","a"," ","o","n"," ","W","i","n","d","o","w","s",":"," ">> \o EndpointErrorText,
                                <<Mechanism("user32", <<<<"k","e","y","b","d","_","e","v","e","n","t">>>>, "keydown",
                                            MediaKey(action))>>, << >>, FALSE)
          [] os = "Linux" ->
               LET cmd == Run("playerctl", <<<<"p","l","a","y","e","r","c","t","l">>, action>>)
               IN  CASE ans = "ok" -> SurfaceDone(done, <<cmd>>, << >>, FALSE)
                     [] ans = "missing" ->
                          SurfaceDone(<<"I"," ","n","e","e","d"," ","'","p","l","a","y","e","r","c","t","l","'"," ","t","o"," ","c","o","n","t","r","o","l"," ","m","e","d","i","a"," ","o","n"," ","L","i","n","u","x","."," ","P","l","e","a","s","e"," ","i","n","s","t","a","l","l"," ","i","t"," ","w","i","t","h"," ","'","s","u","d","o"," ","a","p","t"," ","i","n","s","t","a","l","l"," ","p","l","a","y","e","r","c","t","l","'",".">>,
                                      <<cmd>>, << >>, FALSE)
                     [] OTHER ->
                          SurfaceDone(<<"N","o"," ","a","c","t","i","v","e"," ","m","e","d","i","a"," ","p","l","a","y","e","r"," ","f","o","u","n","d"," ","o","r"," ","a","c","t","i","o","n"," ","f","a","i","l","e","d","."," ","I","s"," ","a"," ","m","e","d","i","a"," ","p","l","a","y","e","r"," ","r","u","n","n","i","n","g","?">>,
                                      <<cmd>>, << >>, FALSE)
          [] os = "Darwin" ->
               LET cmd == Run("osascript",
                              <<<<"o","s","a","s","c","r","i","p","t">>, <<"-","e">>,
                                <<"t","e","l","l"," ","a","p","p","l","i","c","a","t","i","o","n"," ","\"","M","u","s","i","c","\""," ","t","o"," ">> \o MediaScript(action)>>)
               IN  IF action \notin MediaActions
                   THEN SurfaceDone(<<"U","n","s","u","p","p","o","r","t","e","d"," ","m","e","d","i","a"," ","a","c","t","i","o","n"," ","o","n"," ","m","a","c","O","S",":"," ">> \o action, << >>,
                                    << >>, FALSE)
                   ELSE CASE ans = "ok" -> SurfaceDone(done, <<cmd>>, << >>, FALSE)
                          [] ans = "failed" ->
                               SurfaceDone(<<"N","o"," ","a","c","t","i","v","e"," ","m","e","d","i","a"," ","p","l","a","y","e","r"," ","f","o","u","n","d"," ","(","e",".","g",".",","," ","M","u","s","i","c"," ","a","p","p",")"," ","o","r"," ","a","c","t","i","o","n"," ","f","a","i","l","e","d",".">>,
                                           <<cmd>>, << >>, FALSE)
                          [] OTHER ->
                               SurfaceDone(<<"E","r","r","o","r"," ","c","o","n","t","r","o","l","l","i","n","g"," ","m","e","d","i","a"," ","o","n"," ","m","a","c","O","S",":"," ">>
                                             \o FileNotFoundText, <<cmd>>, << >>, FALSE)
          [] OTHER ->
               SurfaceDone(<<"M","e","d","i","a"," ","c","o","n","t","r","o","l"," ","n","o","t"," ","s","u","p","p","o","r","t","e","d"," ","o","n"," ","t","h","i","s"," ","O","S"," ","o","r"," ","r","e","q","u","i","r","e","s"," ","a","d","d","i","t","i","o","n","a","l"," ","s","e","t","u","p",".">>,
                           << >>, << >>, FALSE)

\* the integer levels given to set_volume and change_brightness
LevelArgs == {a \in VolumeArgs : a.type = "int"}

\* the actions given to power_control
PowerArgs == {<<"s","h","u","t","d","o","w","n">>, <<"r","e","s","t","a","r","t">>, <<"h","i","b","e","r","n","a","t","e">>, <<"s","u","s","p","e","n","d">>, <<"l","o","c","k">>, <<"L","o","c","k">>, <<"s","l","e","e","p">>}

\* the actions given to media_control
MediaArgs == MediaActions \cup {<<"P","l","a","y">>, <<"r","e","w","i","n","d">>}

\* a caller invokes change_brightness(level)
CallChangeBrightness ==
    /\ op = "idle"
    /\ \E arg \in LevelArgs, ans \in MechAnswers :
       \E ans2 \in (IF os_name = "Linux" /\ ans = "ok" THEN MechAnswers ELSE {"ok"}) :
       \E out \in (IF os_name = "Linux" /\ ans = "ok" THEN XrandrOutputs ELSE {<< >>}) :
       \E r \in {ChangeBrightness(arg.value, os_name, ans, ans2, out)} :
            /\ op' = "change_brightness"
            /\ volArg' = arg
            /\ outcomes' = <<ans, ans2, out>>
            /\ mech' = r.mech
            /\ popen' = r.popen
            /\ result' = r.result
            /\ raised' = r.raised
    /\ UNCHANGED <<os_name, volume_ok, level, prevLevel, running, caught, query, name,
                   urls, calls>>

\* a caller invokes power_control(action)
CallPowerControl ==
    /\ op = "idle"
    /\ \E text \in PowerArgs, ans \in MechAnswers :
       \E oc \in OutcomeVectors(IF os_name = "Linux" /\ Lower(text) = <<"l","o","c","k">>
                                THEN Len(LinuxLockers) ELSE 0) :
       \E r \in {PowerControl(text, os_name, ans, oc)} :
            /\ op' = "power_control"
            /\ volArg' = StrArg(text)
            /\ outcomes' = <<ans>> \o oc
            /\ mech' = r.mech
            /\ popen' = r.popen
            /\ result' = r.result
            /\ raised' = r.raised
    /\ UNCHANGED <<os_name, volume_ok, level, prevLevel, running, caught, query, name,
                   urls, calls>>

\* a caller invokes media_control(action)
CallMediaControl ==
    /\ op = "idle"
    /\ \E text \in MediaArgs, ans \in MechAnswers :
       \E r \in {MediaControl(text, os_name, ans)} :
            /\ op' = "media_control"
            /\ volArg' = StrArg(text)
            /\ outcomes' = <<ans>>
            /\ mech' = r.mech
            /\ popen' = r.popen
            /\ result' = r.result
            /\ raised' = r.raised
    /\ UNCHANGED <<os_name, volume_ok, level, prevLevel, running, caught, query, name,
                   urls, calls>>

NextSurfaces ==
    CallSetVolume \/ CallChangeBrightness \/ CallPowerControl \/ CallMediaControl \/ Return

SpecSurfaces == Init /\ [][NextSurfaces]_vars

-----------------------------------------------------------------------------
(* Surfaces that import an optional library: get_system_status, manage_window,
   take_screenshot. The import statement is inside the operation, so whether the
   library is there is an answer the host gives on every call. *)

\* the ImportError escapes the operation
MissingLibraryUncaught(msg) == SurfaceDone(<< >>, << >>, << >>, TRUE)

\* `except ImportError: return "I need ..."`
MissingLibrary(msg) == SurfaceDone(msg, << >>, << >>, FALSE)

LibraryCall(lib, what) == Mechanism(lib, <<what>>, "call", 0)

LibraryErrorText == <<"l","i","b","r","a","r","y"," ","c","a","l","l"," ","f","a","i","l","e","d">>

\* f"{x:.2f}" of mib / 1024, rounding half to even
Gigabytes(mib) ==
    LET twice == (mib * 200) \div 1024
        down  == twice \div 2
        exact == (mib * 200) % 1024 = 0
        h     == IF twice % 2 = 0 THEN down
                 ELSE IF exact /\ down % 2 = 0 THEN down ELSE down + 1
    IN  Digits(h \div 100) \o <<".">> \o Pad2(h % 100)

\* str of a float with one decimal, given in tenths
Tenths(t) == Digits(t \div 10) \o <<".">> \o Digits(t % 10)

NoBattery == [present |-> FALSE, percent |-> 0, power_plugged |-> FALSE]
Batteries == {NoBattery, [present |-> TRUE, percent |-> 87, power_plugged |-> TRUE],
              [present |-> TRUE, percent |-> 15, power_plugged |-> FALSE]}
\* total and used memory in MiB
Memories == {[total |-> 16384, used |-> 5000], [total |-> 3072, used |-> 128]}
\* cpu_percent in tenths of a percent
CpuLoads == {0, 125}

\* what psutil answers, when it is there
NoMetrics == [psutil |-> FALSE, fault |-> FALSE, battery |-> NoBattery,
              memory |-> [total |-> 0, used |-> 0], cpu |-> 0]
MetricsHosts ==
    {NoMetrics} \cup [psutil : {TRUE}, fault : BOOLEAN, battery : Batteries,
                      memory : Memories, cpu : CpuLoads]

\* one psutil reading turned into its sentence, or the text of its exception
Reading(lib, what, msg, host) ==
    IF host.fault
    THEN SurfaceDone(<<"E","r","r","o","r"," ","g","e","t","t","i","n","g"," ","s","y","s","t","e","m"," ","s","t","a","t","u","s",":"," ">> \o LibraryErrorText,
                     <<LibraryCall(lib, what)>>, << >>, FALSE)
    ELSE SurfaceDone(msg, <<LibraryCall(lib, what)>>, << >>, FALSE)

\* get_system_status(query)
GetSystemStatus(text, host) ==
    LET qry == Lower(text)
    IN  IF ~host.psutil
        THEN MissingLibrary(<<"I"," ","n","e","e","d"," ","t","h","e"," ","'","p","s","u","t","i","l","'"," ","l","i","b","r","a","r","y"," ","t","o"," ","g","e","t"," ","s","y","s","t","e","m"," ","s","t","a","t","u","s","."," ","P","l","e","a","s","e"," ","i","n","s","t","a","l","l"," ","i","t"," ","w","i","t","h"," ","'","p","i","p"," ","i","n","s","t","a","l","l"," ","p","s","u","t","i","l","'",".">>)
        ELSE CASE Contains(<<"b","a","t","t","e","r","y">>, qry) ->
                    Reading("psutil", <<"s","e","n","s","o","r","s","_","b","a","t","t","e","r","y">>,
                            IF host.battery.present
                            THEN <<"B","a","t","t","e","r","y"," ","i","s"," ","a","t"," ">> \o Digits(host.battery.percent)
                                   \o <<"%"," ","a","n","d"," ","i","s"," ">>
                                   \o (IF host.battery.power_plugged THEN <<"p","l","u","g","g","e","d"," ","i","n">>
                                       ELSE <<"n","o","t"," ","p","l","u","g","g","e","d"," ","i","n">>) \o <<".">>
                            ELSE <<"B","a","t","t","e","r","y"," ","s","t","a","t","u","s"," ","n","o","t"," ","a","v","a","i","l","a","b","l","e",".">>, host)
               [] Contains(<<"m","e","m","o","r","y">>, qry) \/ Contains(<<"r","a","m">>, qry) ->
                    Reading("psutil", <<"v","i","r","t","u","a","l","_","m","e","m","o","r","y">>,
                            <<"T","o","t","a","l"," ","R","A","M",":"," ">> \o Gigabytes(host.memory.total) \o <<" ","G","B",","," ","U","s","e","d",":"," ">>
                              \o Gigabytes(host.memory.used) \o <<" ","G","B",".">>, host)
               [] Contains(<<"c","p","u">>, qry) ->
                    Reading("psutil", <<"c","p","u","_","p","e","r","c","e","n","t">>,
                            <<"C","P","U"," ","u","s","a","g","e"," ","i","s"," ","a","t"," ">> \o Tenths(host.cpu) \o <<"%",".">>, host)
               [] OTHER ->
                    SurfaceDone(<<"I"," ","c","a","n"," ","c","h","e","c","k"," ","b","a","t","t","e","r","y",","," ","m","e","m","o","r","y",","," ","o","r"," ","C","P","U"," ","s","t","a","t","u","s",".">>, << >>, << >>,
                                FALSE)

\* what pygetwindow answers: whether it is there, whether a window is active,
\* whether the window call raises
NoWindows == [pygetwindow |-> FALSE, window |-> FALSE, fault |-> FALSE]
WindowHosts ==
    {NoWindows} \cup [pygetwindow : {TRUE}, window : BOOLEAN, fault : BOOLEAN]

WindowActions == {<<"m","i","n","i","m","i","z","e">>, <<"m","a","x","i","m","i","z","e">>, <<"c","l","o","s","e">>}

\* lines 360-368: the sentence of a window action
WindowMsg(action) ==
    CASE action = <<"m","i","n","i","m","i","z","e">> -> <<"M","i","n","i","m","i","z","i","n","g"," ","t","h","e"," ","c","u","r","r","e","n","t"," ","w","i","n","d","o","w",".">>
      [] action = <<"m","a","x","i","m","i","z","e">> -> <<"M","a","x","i","m","i","z","i","n","g"," ","t","h","e"," ","c","u","r","r","e","n","t"," ","w","i","n","d","o","w",".">>
      [] OTHER -> <<"C","l","o","s","i","n","g"," ","t","h","e"," ","c","u","r","r","e","n","t"," ","w","i","n","d","o","w",".">>

\* manage_window(action)
ManageWindow(text, host) ==
    LET action == Lower(text)
        active == LibraryCall("pygetwindow", <<"g","e","t","A","c","t","i","v","e","W","i","n","d","o","w">>)
    IN  IF ~host.pygetwindow
        THEN MissingLibrary(<<"I"," ","n","e","e","d"," ","t","h","e"," ","'","p","y","g","e","t","w","i","n","d","o","w","'"," ","l","i","b","r","a","r","y"," ","t","o"," ","m","a","n","a","g","e"," ","w","i","n","d","o","w","s","."," ","P","l","e","a","s","e"," ","i","n","s","t","a","l","l"," ","i","t"," ","w","i","t","h"," ","'","p","i","p"," ","i","n","s","t","a","l","l"," ","p","y","g","e","t","w","i","n","d","o","w","'",".">>)
        ELSE IF ~host.window
        THEN IF host.fault
             THEN SurfaceDone(<<"E","r","r","o","r"," ","m","a","n","a","g","i","n","g"," ","w","i","n","d","o","w",":"," ">> \o LibraryErrorText, <<active>>,
                              << >>, FALSE)
             ELSE SurfaceDone(<<"N","o"," ","a","c","t","i","v","e"," ","w","i","n","d","o","w"," ","f","o","u","n","d",".">>, <<active>>, << >>, FALSE)
        ELSE IF action \notin WindowActions
        THEN SurfaceDone(<<"U","n","k","n","o","w","n"," ","w","i","n","d","o","w"," ","a","c","t","i","o","n",":"," ">> \o action, <<active>>, << >>, FALSE)
        ELSE IF host.fault
        THEN SurfaceDone(<<"E","r","r","o","r"," ","m","a","n","a","g","i","n","g"," ","w","i","n","d","o","w",":"," ">> \o LibraryErrorText,
                         <<active, LibraryCall("pygetwindow", action)>>, << >>, FALSE)
        ELSE SurfaceDone(WindowMsg(action),
                         <<active, LibraryCall("pygetwindow", action)>>, << >>, FALSE)

\* what the capture libraries answer: whether each is there, how many entries
\* sct.monitors has, whether grabbing or saving raises, and the clock
NoCapture == [mss |-> FALSE, pil |-> FALSE, monitors |-> 1, fault |-> FALSE,
              now |-> 1762000000]
CaptureHosts ==
    [mss : BOOLEAN, pil : BOOLEAN, monitors : 1..2, fault : {FALSE}, now : {1762000000}]
    \cup [mss : {TRUE}, pil : {TRUE}, monitors : 1..2, fault : {TRUE},
          now : {1762000000}]

\* os.path.join(os.path.expanduser("~"), "Pictures", f"screenshot_{int(time.time())}.png")
DefaultScreenshotPath(os, now) ==
    IF os = "Windows"
    THEN <<"C",":","\\","U","s","e","r","s","\\","u","s","e","r","\\","P","i","c","t","u","r","e","s","\\","s","c","r","e","e","n","s","h","o","t","_">> \o Digits(now) \o <<".","p","n","g">>
    ELSE <<"/","h","o","m","e","/","u","s","e","r","/","P","i","c","t","u","r","e","s","/","s","c","r","e","e","n","s","h","o","t","_">> \o Digits(now) \o <<".","p","n","g">>

\* take_screenshot(filepath)
TakeScreenshot(arg, os, host) ==
    LET filepath == IF arg.type = "str" THEN arg.text
                    ELSE DefaultScreenshotPath(os, host.now)
        grab     == Mechanism("mss", <<<<"g","r","a","b">>>>, "monitor",
                              IF host.monitors > 1 THEN 1 ELSE 0)
        save     == Mechanism("PIL", <<filepath>>, "save", 0)
    IN  IF ~(host.mss /\ host.pil)
        THEN MissingLibrary(<<"I"," ","n","e","e","d"," ","t","h","e"," ","'","m","s","s","'"," ","a","n","d"," ","'","P","i","l","l","o","w","'"," ","l","i","b","r","a","r","i","e","s"," ","t","o"," ","t","a","k","e"," ","s","c","r","e","e","n","s","h","o","t","s","."," ","P","l","e","a","s","e"," ","i","n","s","t","a","l","l"," ","t","h","e","m"," ","w","i","t","h"," ","'","p","i","p"," ","i","n","s","t","a","l","l"," ","m","s","s"," ","P","i","l","l","o","w","'",".">>)
        ELSE IF host.fault
        THEN SurfaceDone(<<"E","r","r","o","r"," ","t","a","k","i","n","g"," ","s","c","r","e","e","n","s","h","o","t",":"," ">> \o LibraryErrorText, <<grab>>, << >>,
                         FALSE)
        ELSE SurfaceDone(<<"S","c","r","e","e","n","s","h","o","t"," ","s","a","v","e","d"," ","t","o",":"," ">> \o filepath, <<grab, save>>, << >>, FALSE)

\* the queries given to get_system_status
StatusArgs == {<<"b","a","t","t","e","r","y">>, <<"B","a","t","t","e","r","y"," ","l","e","v","e","l">>, <<"m","e","m","o","r","y">>, <<"h","o","w"," ","m","u","c","h"," ","R","A","M">>, <<"c","p","u">>, <<"w","e","a","t","h","e","r">>, << >>}

\* the actions given to manage_window
WindowArgs == WindowActions \cup {<<"C","l","o","s","e">>, <<"r","e","s","i","z","e">>, << >>}

\* the file paths given to take_screenshot; None asks for the default path
ScreenshotArgs == {OtherArg, StrArg(<<"s","h","o","t",".","p","n","g">>), StrArg(<< >>)}

\* a caller invokes get_system_status(query)
CallGetSystemStatus ==
    /\ op = "idle"
    /\ \E text \in StatusArgs, host \in MetricsHosts :
       \E r \in {GetSystemStatus(text, host)} :
            /\ op' = "get_system_status"
            /\ volArg' = StrArg(text)
            /\ outcomes' = <<host>>
            /\ mech' = r.mech
            /\ popen' = r.popen
            /\ result' = r.result
            /\ raised' = r.raised
    /\ UNCHANGED <<os_name, volume_ok, level, prevLevel, running, caught, query, name,
                   urls, calls>>

\* a caller invokes manage_window(action)
CallManageWindow ==
    /\ op = "idle"
    /\ \E text \in WindowArgs, host \in WindowHosts :
       \E r \in {ManageWindow(text, host)} :
            /\ op' = "manage_window"
            /\ volArg' = StrArg(text)
            /\ outcomes' = <<host>>
            /\ mech' = r.mech
            /\ popen' = r.popen
            /\ result' = r.result
            /\ raised' = r.raised
    /\ UNCHANGED <<os_name, volume_ok, level, prevLevel, running, caught, query, name,
                   urls, calls>>

\* a caller invokes take_screenshot(filepath)
CallTakeScreenshot ==
    /\ op = "idle"
    /\ \E arg \in ScreenshotArgs, host \in CaptureHosts :
       \E r \in {TakeScreenshot(arg, os_name, host)} :
            /\ op' = "take_screenshot"
            /\ volArg' = arg
            /\ outcomes' = <<host>>
            /\ mech' = r.mech
            /\ popen' = r.popen
            /\ result' = r.result
            /\ raised' = r.raised
    /\ UNCHANGED <<os_name, volume_ok, level, prevLevel, running, caught, query, name,
                   urls, calls>>

NextOptional == CallGetSystemStatus \/ CallManageWindow \/ CallTakeScreenshot \/ Return

SpecOptional == Init /\ [][NextOptional]_vars

-----------------------------------------------------------------------------
(* Properties of open_application, checked under SpecResolver. *)

WebEntries == {i \in 1..Len(APPS) : APPS[i].web}
LaunchEntries == {i \in 1..Len(APPS) : ~APPS[i].web}

\* the registry entries whose key occurs in the lowercased name
MatchedEntries(nm) ==
    UNION {{i \in 1..Len(APPS) : Contains(APPS[i].key, key)} : key \in {Lower(nm)}}

\* the entry the name resolves to, if any: the matching entry declared first
ResolvedEntry(nm) ==
    UNION {{i \in matched : \A j \in matched : i <= j} : matched \in {MatchedEntries(nm)}}

Resolved == op = "open_application"

\* C1 as stated: whenever the name contains a web-target key, whatever else it
\* contains, exactly the URI declared for that key is opened and the call
\* returns "Opening <key>".
C1_AnyNameWithWebKey ==
    Resolved =>
        \A i \in WebEntries :
            Contains(APPS[i].key, name) =>
                /\ urls = <<APPS[i].uri>>
                /\ result = <<"O","p","e","n","i","n","g"," ">> \o APPS[i].key

\* C1 (amended): whenever the lowercased name contains a web-target key and no
\* registry key declared before it, exactly the URI declared for that key is
\* opened, no process is started and the call returns "Opening <key>".
C1_FirstMatchedWebKey ==
    Resolved =>
        \A key \in {Lower(name)} :
        \A i \in WebEntries :
            (/\ Contains(APPS[i].key, key)
             /\ \A j \in 1..(i - 1) : ~Contains(APPS[j].key, key))
            => /\ urls = <<APPS[i].uri>>
               /\ popen = << >>
               /\ result = <<"O","p","e","n","i","n","g"," ">> \o APPS[i].key

\* a name that holds more than the key "youtube" resolved to the youtube URI
C1_Witness ==
    /\ Resolved
    /\ Contains(<<"y","o","u","t","u","b","e">>, Lower(name))
    /\ Len(name) > Len(<<"y","o","u","t","u","b","e">>)
    /\ urls = <<<<"h","t","t","p","s",":","/","/","y","o","u","t","u","b","e",".","c","o","m">>>>

\* C2: when the name resolves to a launch target whose first n candidates on
\* this platform do not launch and whose candidate n+1 launches, the process
\* starts made are exactly candidates 1..n+1 in declared order, each once, none
\* after n+1, and the call returns "Opening <key>".
C2_FirstLaunchableCandidate ==
    Resolved =>
        \A i \in ResolvedEntry(name) \cap LaunchEntries :
                \A c \in {Candidates(APPS[i], os_name)} :
                    \A n \in 0..(Len(c) - 1) :
                        (/\ \A j \in 1..n : outcomes[j] # "Launched"
                         /\ outcomes[n + 1] = "Launched")
                        => /\ popen = [j \in 1..(n + 1) |->
                                         [argv |-> <<c[j]>>, outcome |-> outcomes[j]]]
                           /\ urls = << >>
                           /\ result = <<"O","p","e","n","i","n","g"," ">> \o APPS[i].key

\* a walk over three candidates that stopped at the second one
C2_Witness ==
    /\ Resolved
    /\ \E i \in ResolvedEntry(name) \cap LaunchEntries :
        /\ Len(Candidates(APPS[i], os_name)) = 3
        /\ outcomes[1] = "NotFound"
        /\ outcomes[2] = "Launched"
        /\ Len(popen) = 2
        /\ popen[2].argv = <<Candidates(APPS[i], os_name)[2]>>

C4_NoStartForNotFound ==
    Resolved => \A j \in 1..Len(popen) : popen[j].outcome # "NotFound"

\* C5: when the lowercased name contains no registry key, exactly one process
\* start is made, with the lowercased name as the whole command; if it does not
\* launch, the search URI ending in the lowercased name is opened and the call
\* returns the fallback sentence, which does not begin with "Opening ".
C5_UnmatchedNameFallsBack ==
    (Resolved /\ MatchedEntries(name) = {}) =>
        \A key \in {Lower(name)} :
            /\ Len(popen) = 1
            /\ popen[1].argv = <<key>>
            /\ popen[1].outcome = outcomes[1]
            /\ outcomes[1] = "Launched" =>
                  /\ urls = << >>
                  /\ result = <<"O","p","e","n","i","n","g"," ">> \o key
            /\ outcomes[1] # "Launched" =>
                  /\ urls = <<<<"h","t","t","p","s",":","/","/","w","w","w",".","g","o","o","g","l","e",".","c","o","m","/","s","e","a","r","c","h","?","q","=","o","p","e","n","+">> \o key>>
                  /\ Contains(<<"O","p","e","n","i","n","g"," ","w","e","b"," ","s","e","a","r","c","h">>, result)
                  /\ Contains(key, result)
                  /\ ~StartsWith(result, <<"O","p","e","n","i","n","g"," ">>)

\* an unmatched name typed with a capital fell back to the web search
C5_Witness ==
    /\ Resolved
    /\ MatchedEntries(name) = {}
    /\ name # Lower(name)
    /\ popen[1].outcome = "LaunchError"
    /\ Len(urls) = 1

\* the registry entries whose key occurs in the lowercased name or holds it
EitherWayEntries(nm) ==
    UNION {{i \in 1..Len(APPS) : Contains(APPS[i].key, key) \/ Contains(key, APPS[i].key)} :
           key \in {Lower(nm)}}

\* C13 as stated: for a name that is not blank the entry resolved is the first, in
\* declaration order, whose key occurs in the lowercased name or holds it as a
\* substring: a web entry
\* has its URI opened, a launch entry is reported opened or not found, and the
\* raw name is never started in its place.
C13_EitherWayFirstMatch ==
    (Resolved /\ Strip(name) # << >>) =>
        \A either \in {EitherWayEntries(name)} :
        \A i \in {e \in either : \A j \in either : e <= j} :
            /\ APPS[i].web =>
                  /\ urls = <<APPS[i].uri>>
                  /\ result = <<"O","p","e","n","i","n","g"," ">> \o APPS[i].key
            /\ ~APPS[i].web =>
                  /\ urls = << >>
                  /\ \/ result = <<"O","p","e","n","i","n","g"," ">> \o APPS[i].key
                     \/ result = Capitalize(APPS[i].key) \o <<" ","n","o","t"," ","f","o","u","n","d"," ","o","n"," ","t","h","i","s"," ","s","y","s","t","e","m",".">>
                  /\ \A j \in 1..Len(popen) : popen[j].argv # <<Lower(name)>>

\* the whole commands a platform's list declares: a list that holds an option
\* token (one beginning with "-") is one command, executable first, arguments
\* after; any other list holds one single-token command per element
DeclaredCommands(v, os) ==
    UNION {IF \E j \in 1..Len(c) : StartsWith(c[j], <<"-">>)
           THEN {c}
           ELSE {<<c[j]>> : j \in 1..Len(c)} : c \in {Candidates(v, os)}}

\* C14 as stated: every process start of a fallback walk carries one whole
\* declared command, the executable followed by all its arguments.
C14_WholeCommandStarted ==
    Resolved =>
        \A i \in ResolvedEntry(name) \cap LaunchEntries :
            \A j \in 1..Len(popen) :
                popen[j].argv \in DeclaredCommands(APPS[i], os_name)

-----------------------------------------------------------------------------
(* Properties of handle_command and of the loop, checked under Spec. *)

Routed == op = "handle_command"

ClockCall == [fn |-> "datetime.now", arg |-> << >>]

\* C6: the rule that handles a query is the first of time, date, wikipedia,
\* open whose trigger occurs in the lowercased query, else the "don't know"
\* fallback: only that rule's collaborator is called, once, and only that
\* rule's response is returned.
C6_FirstMatchingRuleWins ==
    Routed =>
        LET q       == Lower(query)
            isTime  == Contains(<<"t","i","m","e">>, q)
            isDate  == ~isTime /\ Contains(<<"d","a","t","e">>, q)
            isWiki  == ~isTime /\ ~isDate /\ Contains(<<"w","i","k","i","p","e","d","i","a">>, q)
            isOpen  == ~isTime /\ ~isDate /\ ~isWiki /\ Contains(<<"o","p","e","n">>, q)
            isOther == ~isTime /\ ~isDate /\ ~isWiki /\ ~isOpen
        IN  /\ isTime => /\ calls = <<ClockCall>>
                         /\ StartsWith(result, <<"T","h","e"," ","c","u","r","r","e","n","t"," ","t","i","m","e"," ","i","s"," ">>)
                         /\ Len(result) = Len(<<"T","h","e"," ","c","u","r","r","e","n","t"," ","t","i","m","e"," ","i","s"," ","0","0",":","0","0">>)
            /\ isDate => /\ calls = <<ClockCall>>
                         /\ StartsWith(result, <<"T","o","d","a","y","'","s"," ","d","a","t","e"," ","i","s"," ">>)
            /\ isWiki => /\ Len(calls) = 1
                         /\ calls[1].fn = "wikipedia.summary"
                         /\ \/ StartsWith(result, <<"A","c","c","o","r","d","i","n","g"," ","t","o"," ","W","i","k","i","p","e","d","i","a",":"," ">>)
                            \/ StartsWith(result, <<"S","o","r","r","y",","," ","I"," ","c","o","u","l","d","n","'","t"," ","f","e","t","c","h"," ","t","h","a","t"," ","i","n","f","o","r","m","a","t","i","o","n","."," ","(">>)
            /\ isOpen => /\ Len(calls) = 1
                         /\ calls[1].fn = "open_application"
                         /\ \/ StartsWith(result, <<"O","p","e","n","i","n","g"," ">>)
                            \/ StartsWith(result, <<"C","o","u","l","d"," ","n","o","t"," ","f","i","n","d"," ">>)
                            \/ Contains(<<" ","n","o","t"," ","f","o","u","n","d"," ","o","n"," ","t","h","i","s"," ","s","y","s","t","e","m",".">>, result)
            /\ isOther => /\ calls = << >>
                          /\ result = <<"S","o","r","r","y",","," ","I"," ","d","o","n","'","t"," ","k","n","o","w"," ","t","h","a","t"," ","y","e","t",".">>
            /\ ~isOpen => popen = << >> /\ urls = << >>

\* a query holding both "open" and "time" was answered with the time and the
\* resolver was not called
C6_Witness ==
    /\ Routed
    /\ Contains(<<"o","p","e","n">>, query)
    /\ Contains(<<"t","i","m","e">>, query)
    /\ calls = <<ClockCall>>
    /\ StartsWith(result, <<"T","h","e"," ","c","u","r","r","e","n","t"," ","t","i","m","e"," ","i","s"," ">>)

\* the positions of t that no occurrence of s covers
Uncovered(s, t) ==
    {p \in 1..Len(t) : ~\E i \in 0..(Len(t) - Len(s)) :
                            OccursAt(s, t, i) /\ i < p /\ p <= i + Len(s)}

\* the characters of t at the positions in idx, in order
Restrict(t, idx) ==
    [k \in 1..Cardinality(idx) |->
        t[CHOOSE p \in idx : Cardinality({r \in idx : r <= p}) = k]]

\* t without its leading and trailing whitespace
Trimmed(t) ==
    IF \A p \in 1..Len(t) : t[p] \in Whitespace THEN << >>
    ELSE LET first == CHOOSE p \in 1..Len(t) :
                        t[p] \notin Whitespace /\ \A r \in 1..(p - 1) : t[r] \in Whitespace
             last  == CHOOSE p \in 1..Len(t) :
                        t[p] \notin Whitespace /\ \A r \in (p + 1)..Len(t) : t[r] \in Whitespace
         IN  [k \in 1..(last - first + 1) |-> t[first + k - 1]]

\* C7: a query handled by the open rule reaches the resolver, once, with the
\* key made of the characters of the lowercased query that lie outside every
\* occurrence of "open", in their order, trimmed of surrounding whitespace.
C7_OpenKeyIsRemainder ==
    (Routed /\ calls # << >> /\ calls[1].fn = "open_application") =>
        LET q   == Trimmed(Lower(query))
            key == Trimmed(Restrict(q, Uncovered(<<"o","p","e","n">>, q)))
        IN  /\ calls = <<[fn |-> "open_application", arg |-> key]>>
            /\ name = key

\* "open calculator" reached the resolver with the key "calculator"
C7_Witness ==
    /\ Routed
    /\ query = <<"o","p","e","n"," ","c","a","l","c","u","l","a","t","o","r">>
    /\ calls = <<[fn |-> "open_application", arg |-> <<"c","a","l","c","u","l","a","t","o","r">>]>>
    /\ name = <<"c","a","l","c","u","l","a","t","o","r">>

\* C8: the loop stops only on a step that hears an exit or quit phrase, and on
\* such a step handle_command is not called, no collaborator is called, no
\* process is started and no URI is opened; no handler error stops the loop.
C8_OnlyExitEndsLoop ==
    [][/\ (running /\ ~running') =>
             /\ ExitPhrase(query')
             /\ op' = "exit"
             /\ ~raised'
       /\ (op = "idle" /\ op' # "idle" /\ ExitPhrase(query')) =>
             /\ op' = "exit"
             /\ calls' = << >>
             /\ popen' = << >>
             /\ urls' = << >>
       /\ op' = "handle_command" => (running' /\ ~raised')]_vars

\* the loop has caught a handler's error, went on, and ended on an exit phrase
C8_Witness ==
    /\ ~running
    /\ caught
    /\ op = "exit"
    /\ ExitPhrase(query)
    /\ calls = << >>

-----------------------------------------------------------------------------
(* Properties of set_volume, checked under SpecVolume. *)

VolumeCalled == op = "set_volume"

\* C9: set_volume with an integer below 0 or above 100 returns the validation
\* error on every platform, invokes no platform mechanism, raises nothing and
\* leaves the host's volume as it was.
C9_OutOfRangeLevelRejected ==
    (/\ VolumeCalled
     /\ volArg.type = "int"
     /\ (volArg.value < 0 \/ volArg.value > 100))
    => /\ result = <<"E","r","r","o","r",":"," ","V","o","l","u","m","e"," ","l","e","v","e","l"," ","m","u","s","t"," ","b","e"," ","b","e","t","w","e","e","n"," ","0"," ","a","n","d"," ","1","0","0",".">>
       /\ mech = << >>
       /\ level = prevLevel
       /\ ~raised

\* set_volume(101) on a Windows host with a working endpoint was rejected
C9_Witness ==
    /\ VolumeCalled
    /\ os_name = "Windows"
    /\ volume_ok
    /\ volArg.type = "int"
    /\ volArg.value = 101
    /\ mech = << >>
    /\ StartsWith(result, <<"E","r","r","o","r",":"," ","V","o","l","u","m","e"," ","l","e","v","e","l"," ","m","u","s","t"," ","b","e"," ","b","e","t","w","e","e","n"," ","0"," ","a","n","d"," ","1","0","0">>)

\* C10 as stated: after set_volume("increase") or set_volume("decrease") every
\* absolute level requested from the platform mechanism is the previous level
\* plus or minus 5 clamped to [0,100], and the host's volume stays in [0,100].
C10_RequestedLevelClamped ==
    (/\ VolumeCalled
     /\ volArg.type = "str"
     /\ Lower(volArg.text) \in {<<"i","n","c","r","e","a","s","e">>, <<"d","e","c","r","e","a","s","e">>})
    => LET step == IF Lower(volArg.text) = <<"i","n","c","r","e","a","s","e">> THEN 5 ELSE 0 - 5
           want == IF prevLevel + step > 100 THEN 100
                   ELSE IF prevLevel + step < 0 THEN 0 ELSE prevLevel + step
       IN  /\ level >= 0 /\ level <= 100
           /\ \A j \in 1..Len(mech) :
                mech[j].kind = "absolute" =>
                    /\ mech[j].value = want
                    /\ mech[j].value >= 0
                    /\ mech[j].value <= 100

-----------------------------------------------------------------------------
(* Properties of the control surfaces, checked under SpecSurfaces. *)

SurfaceCalled ==
    op \in {"set_volume", "change_brightness", "power_control", "media_control"}

\* C11 as stated: whatever the platform mechanism answers (the tool is absent,
\* the command exits non-zero, the privilege is missing), set_volume,
\* change_brightness, power_control and media_control return a string and no
\* exception leaves the operation.
C11_NoUncaughtException ==
    SurfaceCalled => (~raised /\ result # << >>)

-----------------------------------------------------------------------------
(* Properties of the optional-library surfaces, checked under SpecOptional. *)

\* the optional library of the operation in progress was not there
LibraryAbsent ==
    \/ op = "get_system_status" /\ ~outcomes[1].psutil
    \/ op = "manage_window" /\ ~outcomes[1].pygetwindow
    \/ op = "take_screenshot" /\ ~(outcomes[1].mss /\ outcomes[1].pil)

\* the sentence says which library the capability needs and how to install it
SaysUnavailable(text, lib) ==
    /\ StartsWith(text, <<"I"," ","n","e","e","d"," ","t","h","e"," ","'">> \o lib \o <<"'">>)
    /\ Contains(<<"P","l","e","a","s","e"," ","i","n","s","t","a","l","l">>, text)
    /\ Contains(<<"p","i","p"," ","i","n","s","t","a","l","l"," ">> \o lib, text)

\* C12: when the optional library behind get_system_status, manage_window or
\* take_screenshot is absent, the call raises nothing, touches no library, and
\* returns the sentence that names the missing library and asks to install it,
\* whatever its argument.
C12_AbsentLibraryReported ==
    LibraryAbsent =>
        /\ ~raised
        /\ mech = << >>
        /\ op = "get_system_status" => SaysUnavailable(result, <<"p","s","u","t","i","l">>)
        /\ op = "manage_window" => SaysUnavailable(result, <<"p","y","g","e","t","w","i","n","d","o","w">>)
        /\ op = "take_screenshot" => SaysUnavailable(result, <<"m","s","s">>)

\* manage_window("close") was called with pygetwindow absent and answered
C12_Witness ==
    /\ op = "manage_window"
    /\ LibraryAbsent
    /\ volArg = StrArg(<<"c","l","o","s","e">>)
    /\ result # << >>

=============================================================================
